---- MODULE Spec2Model ----
(***************************************************************************)
(* Iron-repletion forecasting core (core.py): rule predictor, calibrated   *)
(* predictor, case / follow-up repository, calibration trainer and the     *)
(* model store with its version history.                                   *)
(*                                                                         *)
(* Numbers are exact rationals <<n, d>> (d > 0, lowest terms); Python's    *)
(* None is the empty tuple.  Text (identifiers, aliases) is a sequence of  *)
(* tokens, a token being either the blank " " or an indivisible word.      *)
(***************************************************************************)
EXTENDS Integers, Sequences, FiniteSets

\* ------------------------------------------------------------------------
\* Exact arithmetic
\* ------------------------------------------------------------------------
None == << >>

Abs(a) == IF a < 0 THEN -a ELSE a

RECURSIVE GCD(_, _)
GCD(a, b) == IF b = 0 THEN a ELSE GCD(b, a % b)

Norm(n, d) ==
    LET g == GCD(Abs(n), Abs(d))
        s == IF d < 0 THEN -1 ELSE 1
    IN  << (s * n) \div g, (s * d) \div g >>

Q(n, d) == Norm(n, d)
Z(n) == << n, 1 >>

RAdd(x, y) ==
    LET g == GCD(x[2], y[2])
    IN  Norm(x[1] * (y[2] \div g) + y[1] * (x[2] \div g), (x[2] \div g) * y[2])

RNeg(x) == << -x[1], x[2] >>
RSub(x, y) == RAdd(x, RNeg(y))

RMul(x, y) ==
    LET g1 == GCD(Abs(x[1]), y[2])
        g2 == GCD(Abs(y[1]), x[2])
    IN  IF x[1] = 0 \/ y[1] = 0 THEN Z(0)
        ELSE << (x[1] \div g1) * (y[1] \div g2), (x[2] \div g2) * (y[2] \div g1) >>

RDiv(x, y) == RMul(x, Norm(y[2], y[1]))

RLe(x, y) ==
    LET g == GCD(x[2], y[2])
    IN  x[1] * (y[2] \div g) <= y[1] * (x[2] \div g)
RLt(x, y) == ~RLe(y, x)
RMax(x, y) == IF RLe(y, x) THEN x ELSE y
RMin(x, y) == IF RLe(x, y) THEN x ELSE y
RAbs(x) == << Abs(x[1]), x[2] >>

RECURSIVE Pow10(_)
Pow10(k) == IF k = 0 THEN 1 ELSE 10 * Pow10(k - 1)

\* the element of a one-element set.  The({ e(v) : v \in {x} }) is e(x) with x
\* worked out once, before e.
The(S) == CHOOSE v \in S : TRUE

\* the integer nearest to n / d (d > 0), ties to the even one
RoundHalfEven(n, d) ==
    LET f == n \div d
    IN  IF 2 * (n - f * d) < d THEN f
        ELSE IF 2 * (n - f * d) > d THEN f + 1
        ELSE IF f % 2 = 0 THEN f ELSE f + 1

\* a round that cuts the digits off
round_down(x, k) ==
    The({ Norm(s[1] \div s[2], Pow10(k)) : s \in { RMul(x, Z(Pow10(k))) } })

\* round(x, k): to k decimals, ties to the even last digit
round(x, k) ==
    The({ Norm(RoundHalfEven(s[1], s[2]), Pow10(k)) : s \in { RMul(x, Z(Pow10(k))) } })

\* a clamp that lets its argument through
clamp_free(x, lo, hi) == x

clamp(x, lo, hi) == RMax(lo, RMin(hi, x))

\* a calc_tsat that answers 0 where the TSAT cannot be derived
calc_tsat_zero(fe, tibc) ==
    IF tibc = None \/ RLe(tibc, Z(0)) THEN Z(0)
    ELSE RDiv(RMul(Z(100), fe), tibc)

calc_tsat(fe, tibc) ==
    IF tibc = None \/ RLe(tibc, Z(0)) THEN None
    ELSE RDiv(RMul(Z(100), fe), tibc)

safe_float(x, default) == IF x = None THEN default ELSE x

\* ------------------------------------------------------------------------
\* Rule-based prediction
\* ------------------------------------------------------------------------
HORIZONS == {12, 24}
AUTO_CAL_MIN_N == 11

A_TSAT == "TSAT upper limit reached"
A_FERR == "ferritin high range"
A_INFL == "inflammation: ferritin caution"
A_CAL  == "calibration model applied"

\* tsat0 as rule_predict, calibrated_predict and register_case derive it
baseline_tsat(labs) ==
    IF labs.tsat # None THEN labs.tsat ELSE calc_tsat(labs.fe, labs.tibc)

\* rule_predict, first part: tsat0 and the effective dose
rule_drive(labs, ctx, horizon_weeks) ==
    LET dose_scale == clamp(Q(ctx.dose_mg_day, 500), Q(1, 2), Z(2))
    IN  [tsat0 |-> baseline_tsat(labs),
         scale |-> Q(horizon_weeks, 12),
         eff |-> clamp(RMul(ctx.adherence, dose_scale), Q(1, 5), Z(2))]

\* rule_predict, second part: the TSAT rise, given the first part d
rule_tsat(d) ==
    LET tsat_inc == RMul(Z(10), RMul(d.eff, d.scale))
    IN  [tsat_inc |-> tsat_inc, tsat1 |-> clamp(RAdd(d.tsat0, tsat_inc), Z(5), Z(40))]

\* rule_predict, third part: Hb, ferritin and Fe, given the parts d and s;
\* with them the intermediate quantities of rule_predict before the rounding
rule_levels(labs, ctx, d, s) ==
    LET low_hb_boost == clamp(RAdd(Z(1), RMul(RSub(Q(21, 2), labs.hb), Q(15, 100))),
                              Q(8, 10), Q(14, 10))
        iron_boost == clamp(RDiv(RSub(s.tsat1, d.tsat0), Z(10)), Z(0), Q(3, 2))
        loss_penalty == RSub(Z(1), clamp(RMul(ctx.bleed, Q(7, 10)), Z(0), Q(7, 10)))
        delta_hb == RMul(RMul(RMul(RMul(Q(1, 2), RMul(d.eff, d.scale)), low_hb_boost),
                              RAdd(Q(6, 10), RMul(Q(4, 10), iron_boost))),
                         loss_penalty)
        ferritin_gain == RMul(RMul(Z(30), RMul(d.eff, d.scale)),
                              clamp(RDiv(RSub(s.tsat1, d.tsat0), Z(10)), Z(0), Z(2)))
        ferritin_inflation == RMul(ctx.inflam, RMul(Z(30), d.scale))
    IN  [tsat0 |-> d.tsat0, eff |-> d.eff, tsat_inc |-> s.tsat_inc, tsat1 |-> s.tsat1,
         delta_hb |-> delta_hb, ferritin_gain |-> ferritin_gain,
         hb1 |-> clamp(RAdd(labs.hb, delta_hb), Z(5), Q(35, 2)),
         ferritin1 |-> clamp(RAdd(RAdd(labs.ferritin, ferritin_gain), ferritin_inflation),
                             Z(1), Z(250)),
         fe1 |-> clamp(RDiv(RMul(s.tsat1, labs.tibc), Z(100)), Z(1), Z(400))]

rule_terms(labs, ctx, horizon_weeks) ==
    The({ The({ rule_levels(labs, ctx, d, s) : s \in { rule_tsat(d) } })
          : d \in { rule_drive(labs, ctx, horizon_weeks) } })

\* rule_predict raises ValueError exactly when this holds
rule_predict_raises(labs) == baseline_tsat(labs) = None

rule_predict(labs, ctx, horizon_weeks) ==
    The({ [Hb |-> round(t.hb1, 2),
           Fe |-> round(t.fe1, 1),
           Ferritin |-> round(t.ferritin1, 1),
           TSAT |-> round(t.tsat1, 1),
           alerts |-> (IF RLe(Z(40), t.tsat1) THEN {A_TSAT} ELSE {})
                      \cup (IF RLe(Z(200), t.ferritin1) THEN {A_FERR} ELSE {})
                      \cup (IF RLt(Q(3, 10), ctx.inflam) THEN {A_INFL} ELSE {})]
          : t \in { rule_terms(labs, ctx, horizon_weeks) } })

\* ------------------------------------------------------------------------
\* Calibrated prediction
\* ------------------------------------------------------------------------
FEATURE_KEYS == << "hb0", "tsat0", "ferritin0", "tibc0", "dose", "adherence", "bleed", "inflam" >>

\* the feature mapping x of calibrated_predict
features(labs, ctx) ==
    [hb0 |-> labs.hb, tsat0 |-> baseline_tsat(labs), ferritin0 |-> labs.ferritin,
     tibc0 |-> labs.tibc, dose |-> Z(ctx.dose_mg_day), adherence |-> ctx.adherence,
     bleed |-> ctx.bleed, inflam |-> ctx.inflam]

\* sum over the feature keys of weight * feature, added pairwise
RECURSIVE lin_sum(_, _, _, _)
lin_sum(w, x, lo, hi) ==
    IF lo = hi
    THEN RMul(w[FEATURE_KEYS[lo]], x[FEATURE_KEYS[lo]])
    ELSE RAdd(lin_sum(w, x, lo, (lo + hi) \div 2),
              lin_sum(w, x, (lo + hi) \div 2 + 1, hi))

\* lin(adj): bias + sum of weight * feature
lin(adj, x) == RAdd(adj.bias, lin_sum(adj.weights, x, 1, Len(FEATURE_KEYS)))

\* calibrated_predict, given the rule prediction base and the features x
calibrated_levels(labs, model, base, x) ==
    The({ [Hb |-> round(clamp(RAdd(base.Hb, lin(model.adjustments.hb, x)), Z(5), Q(35, 2)), 2),
           Fe |-> round(clamp(RDiv(RMul(tsat1, labs.tibc), Z(100)), Z(1), Z(400)), 1),
           Ferritin |-> round(clamp(RAdd(base.Ferritin, lin(model.adjustments.ferritin, x)),
                                    Z(1), Z(250)), 1),
           TSAT |-> round(tsat1, 1),
           alerts |-> base.alerts \cup {A_CAL}]
          : tsat1 \in { clamp(RAdd(base.TSAT, lin(model.adjustments.tsat, x)), Z(5), Z(40)) } })

calibrated_predict(labs, ctx, horizon_weeks, model) ==
    The({ calibrated_levels(labs, model, base, features(labs, ctx))
          : base \in { rule_predict(labs, ctx, horizon_weeks) } })

\* ------------------------------------------------------------------------
\* Bounds and input domains
\* ------------------------------------------------------------------------
NDyn == 2          \* case ids uuid4 can still hand out
MaxClock == 1      \* seconds the wall clock can advance
MaxCalls == 4      \* calls made on a new database
MaxCalCalls == 6   \* calls made on the seeded database

\* SeedRows cases are on file when a seeded run starts, each with its 12-week
\* follow-up: the most a database can hold before the first automatic fit.
SeedRows == AUTO_CAL_MIN_N - 1

UUIDS == << "u01", "u02", "u03", "u04", "u05", "u06", "u07", "u08", "u09", "u10",
            "u11", "u12", "u13", "u14", "u15", "u16" >>
SeedIds == { UUIDS[i] : i \in 1..SeedRows }
DynIds == { UUIDS[i] : i \in (SeedRows + 1)..(SeedRows + NDyn) }
FirstDyn == UUIDS[SeedRows + 1]
GhostId == "u00"   \* an id no case ever had

BLANK == " "
NOTE0 == << "sports_anemia" >>
NOTE1 == << "memo" >>
ALIAS == << "E1" >>

L0 == [hb |-> Z(10), fe |-> Z(50), ferritin |-> Z(20), tibc |-> Z(300), tsat |-> None]
LBad == [hb |-> Z(10), fe |-> Z(50), ferritin |-> Z(20), tibc |-> Z(0), tsat |-> None]
LabsArgs == {L0, LBad}

Ctx0 == [dose_mg_day |-> 500, adherence |-> Z(1), bleed |-> Z(0), inflam |-> Z(0)]
Ctx1 == [Ctx0 EXCEPT !.adherence = Q(1, 2)]
CtxArgs == {Ctx0, Ctx1}

FA == [hb |-> Z(11), fe |-> Z(60), ferritin |-> Z(40), tibc |-> Z(300), tsat |-> None]
FB == [hb |-> Z(12), fe |-> Z(90), ferritin |-> Z(60), tibc |-> Z(0), tsat |-> None]
FollowArgs == {FA, FB}

\* ------------------------------------------------------------------------
\* State
\* ------------------------------------------------------------------------
VARIABLES
    cases,           \* table cases: case_id -> row
    followups,       \* table followups: the set of its rows
    models,          \* model.json "models": horizon_weeks -> current model
    model_versions,  \* table model_versions, in insertion order
    issued,          \* the ids uuid4 has returned so far
    clock,           \* wall clock, in seconds
    ret,             \* the last call: its arguments and what came back
    calls,           \* how many calls have been made
    trainers         \* train_calibration calls in progress: horizon -> position and locals

vars == << cases, followups, models, model_versions, issued, clock, ret, calls, trainers >>

NoArgs == [none |-> TRUE]
NoOut == [none |-> TRUE]
Ret(op, args, status, out) == [op |-> op, args |-> args, status |-> status, out |-> out]

\* now_ts(), and the second time.strftime formats into the version string
now_ts == clock

\* ------------------------------------------------------------------------
\* Model persistence and prediction
\* ------------------------------------------------------------------------
\* a model store read once, before any model was trained
get_model_at_startup(horizon_weeks) == None

get_model_for_horizon(horizon_weeks) ==
    IF horizon_weeks \in DOMAIN models THEN models[horizon_weeks] ELSE None

RULE_V1 == << "rule_v1" >>
calibrated_tag(version) == << "calibrated", version >>

\* a predictor that never consults the model store
predict_rule_only(labs, ctx, horizon_weeks) ==
    [p |-> rule_predict(labs, ctx, horizon_weeks), tag |-> RULE_V1]

predict_for_horizon(labs, ctx, horizon_weeks) ==
    LET model == get_model_for_horizon(horizon_weeks)
    IN  IF model # None
        THEN [p |-> calibrated_predict(labs, ctx, horizon_weeks, model),
              tag |-> calibrated_tag(model.version)]
        ELSE [p |-> rule_predict(labs, ctx, horizon_weeks), tag |-> RULE_V1]

\* the four pred_*_w<h> columns of a cases row
pred_columns(p) == [Hb |-> p.Hb, Fe |-> p.Fe, Ferritin |-> p.Ferritin, TSAT |-> p.TSAT]

\* get_case falling back on some stored row when the id matches none
get_case_any(case_id) ==
    IF case_id \in DOMAIN cases THEN cases[case_id]
    ELSE IF DOMAIN cases = {} THEN None
    ELSE cases[CHOOSE c \in DOMAIN cases : TRUE]

get_case(case_id) == IF case_id \in DOMAIN cases THEN cases[case_id] ELSE None

\* Labs(...) as update_case_context_and_predictions, simulate_predictions_for_case
\* and train_calibration rebuild it from a cases row
row_labs(row) ==
    [hb |-> safe_float(row.hb0, Z(0)), fe |-> safe_float(row.fe0, Z(0)),
     ferritin |-> safe_float(row.ferritin0, Z(0)), tibc |-> safe_float(row.tibc0, Z(0)),
     tsat |-> IF row.tsat0 # None THEN safe_float(row.tsat0, Z(0)) ELSE None]

\* ------------------------------------------------------------------------
\* Tables
\* ------------------------------------------------------------------------
EmptyMap == [k \in {} |-> None]
Put(f, k, v) == [x \in DOMAIN f \cup {k} |-> IF x = k THEN v ELSE f[x]]
Drop(f, S) == [x \in DOMAIN f \ S |-> f[x]]

\* a plain INSERT into a table without the primary key
insert_keep(fus, row) == fus \cup {row}

\* INSERT OR REPLACE INTO followups under PRIMARY KEY(case_id, horizon_weeks)
insert_or_replace(fus, row) ==
    { f \in fus : ~(f.case_id = row.case_id /\ f.horizon_weeks = row.horizon_weeks) }
        \cup {row}

\* ------------------------------------------------------------------------
\* Calibration (ridge on residuals)
\* ------------------------------------------------------------------------
ALPHA == 10

\* _fetch_training_rows: cases JOIN followups for the horizon, given the
\* followups table; each join row is named by its follow-up row
fetch_training_rows(horizon_weeks, fus) ==
    { f \in fus : f.horizon_weeks = horizon_weeks /\ f.case_id \in DOMAIN cases }

\* what a join row brings to the training loop: the columns of its case and
\* the measured values of its follow-up
join_columns(f) ==
    << cases[f.case_id], [hb |-> f.hb, tsat |-> f.tsat, ferritin |-> f.ferritin] >>

\* one pass of the training loop: the features X and the residual targets y
\* of a join row with the case columns r and the follow-up values fv
training_row(r, fv, horizon_weeks) ==
    LET ctx == [dose_mg_day |-> r.dose_mg_day, adherence |-> safe_float(r.adherence, Z(1)),
                bleed |-> safe_float(r.bleed, Z(0)), inflam |-> safe_float(r.inflam, Z(0))]
    IN  The({ [y |-> [hb |-> RSub(safe_float(fv.hb, Z(0)), rule.Hb),
                      tsat |-> RSub(safe_float(fv.tsat, Z(0)), rule.TSAT),
                      ferritin |-> RSub(safe_float(fv.ferritin, Z(0)), rule.Ferritin)],
               X |-> [hb0 |-> safe_float(r.hb0, Z(0)),
                      tsat0 |-> safe_float(r.tsat0, Z(0)),
                      ferritin0 |-> safe_float(r.ferritin0, Z(0)),
                      tibc0 |-> safe_float(r.tibc0, Z(0)),
                      dose |-> Z(r.dose_mg_day),
                      adherence |-> safe_float(r.adherence, Z(0)),
                      bleed |-> safe_float(r.bleed, Z(0)),
                      inflam |-> safe_float(r.inflam, Z(0))]]
              : rule \in { rule_predict(row_labs(r), ctx, horizon_weeks) } })

\* the X and y lists the training loop builds.  Join rows with the same
\* columns give the same X and y, so the loop is run once for each distinct
\* join_columns, and count says how many join rows it stands for.
training_rows(joined, horizon_weeks) ==
    { [columns |-> k,
       count |-> Cardinality({ f \in joined : join_columns(f) = k }),
       row |-> training_row(k[1], k[2], horizon_weeks)]
      : k \in { join_columns(f) : f \in joined } }

\* sum over the training rows of the term f gives each, added to acc
RECURSIVE RSumFrom(_, _, _)
RSumFrom(rows, f, acc) ==
    IF rows = {} THEN acc
    ELSE LET c == CHOOSE c \in rows : TRUE
         IN  RSumFrom(rows \ {c}, f, RAdd(acc, RMul(Z(c.count), f[c])))
RSum(rows, f) == RSumFrom(rows, f, Z(0))

\* the columns of X
Features == { FEATURE_KEYS[i] : i \in 1..Len(FEATURE_KEYS) }

\* the column means X_mean of _ridge_fit
column_means(rows, n) ==
    [k \in Features |-> RDiv(RSum(rows, [c \in rows |-> c.row.X[k]]), Z(n))]

\* the diagonal of Xc^T Xc in _ridge_fit: the centered sum of squares of
\* each column
column_squares(rows, X_mean) ==
    [k \in Features |->
        RSum(rows, [c \in rows |-> RMul(RSub(c.row.X[k], X_mean[k]),
                                        RSub(c.row.X[k], X_mean[k]))])]

\* what _ridge_fit takes from X alone, the same for every target
design(rows, n) ==
    The({ [mean |-> X_mean, squares |-> column_squares(rows, X_mean)]
          : X_mean \in { column_means(rows, n) } })

\* the centered solve of _ridge_fit for target t.  The inputs of this model let
\* at most one feature column vary over the rows, so Xc^T Xc + alpha I is
\* diagonal and the solve gives w_k = Sxy_k / (Sxx_k + alpha) for every k;
\* a column that does not vary has Sxx_k = 0 and Sxy_k = 0.
ridge_solve(rows, t, X, y_mean, alpha) ==
    LET Sxy(k) == RSum(rows, [c \in rows |-> RMul(RSub(c.row.X[k], X.mean[k]),
                                                  RSub(c.row.y[t], y_mean))])
    IN  [k \in Features |-> IF X.squares[k] = Z(0) THEN Z(0)
                            ELSE RDiv(Sxy(k), RAdd(X.squares[k], Z(alpha)))]

\* _ridge_fit, packed as pack(w, b): the means, then w, then b
ridge_fit(rows, n, X, t, alpha) ==
    The({ The({ [bias |-> RSub(y_mean, lin_sum(w, X.mean, 1, Len(FEATURE_KEYS))),
                 weights |-> w]
                : w \in { ridge_solve(rows, t, X, y_mean, alpha) } })
          : y_mean \in { RDiv(RSum(rows, [c \in rows |-> c.row.y[t]]), Z(n)) } })

\* _mae of a fitted head over its training rows
mae(rows, n, t, adj) ==
    RDiv(RSum(rows, [c \in rows |-> RAbs(RSub(c.row.y[t], lin(adj, c.row.X)))]), Z(n))

\* the three heads train_calibration fits
fit_heads(rows, n, X) ==
    [hb |-> ridge_fit(rows, n, X, "hb", ALPHA),
     tsat |-> ridge_fit(rows, n, X, "tsat", ALPHA),
     ferritin |-> ridge_fit(rows, n, X, "ferritin", ALPHA)]

\* the model dict train_calibration builds from the join rows
fit_model(horizon_weeks, joined) ==
    LET n == Cardinality(joined) IN
    The({ The({ [version |-> now_ts,
                 trained_at |-> now_ts,
                 horizon_weeks |-> horizon_weeks,
                 n_train |-> n,
                 adjustments |-> adj,
                 metrics |-> [mae_hb_residual |-> mae(rows, n, "hb", adj.hb),
                              mae_tsat_residual |-> mae(rows, n, "tsat", adj.tsat),
                              mae_ferritin_residual |-> mae(rows, n, "ferritin", adj.ferritin)]]
                : adj \in { The({ fit_heads(rows, n, X) : X \in { design(rows, n) } }) } })
          : rows \in { training_rows(joined, horizon_weeks) } })

\* PRIMARY KEY(horizon_weeks, version) of model_versions
version_taken(horizon_weeks, version) ==
    \E i \in 1..Len(model_versions) :
        /\ model_versions[i].horizon_weeks = horizon_weeks
        /\ model_versions[i].version = version

TrainOut(status, reason, n, version, ms, mv) ==
    [status |-> status, reason |-> reason, n_train |-> n, version |-> version,
     models |-> ms, model_versions |-> mv]

\* a train_calibration without the gate on the current model's n_train
train_calibration_refit(horizon_weeks, force, fus) ==
    LET joined == fetch_training_rows(horizon_weeks, fus)
        n == Cardinality(joined)
    IN  IF n = 0
        THEN TrainOut("skipped", "no followup data for training", 0, -1, models, model_versions)
        ELSE IF (~force) /\ n < AUTO_CAL_MIN_N
        THEN TrainOut("skipped", "training rows < AUTO_CAL_MIN_N", n, -1, models, model_versions)
        ELSE The({ IF version_taken(horizon_weeks, model.version)
                   THEN TrainOut("IntegrityError", "", n, model.version,
                                 Put(models, horizon_weeks, model), model_versions)
                   ELSE TrainOut("trained", "", n, model.version,
                                 Put(models, horizon_weeks, model),
                                 Append(model_versions, model))
                   : model \in { fit_model(horizon_weeks, joined) } })

\* train_calibration as a function of the state it reads (fus: the followups
\* table at the time of the call).  status "IntegrityError": the INSERT into
\* model_versions raised after save_models had already written the model.
train_calibration(horizon_weeks, force, fus) ==
    LET joined == fetch_training_rows(horizon_weeks, fus)
        n == Cardinality(joined)
        current == get_model_for_horizon(horizon_weeks)
    IN  IF n = 0
        THEN TrainOut("skipped", "no followup data for training", 0, -1, models, model_versions)
        ELSE IF (~force) /\ n < AUTO_CAL_MIN_N
        THEN TrainOut("skipped", "training rows < AUTO_CAL_MIN_N", n, -1, models, model_versions)
        ELSE IF (~force) /\ current # None /\ current.n_train = n
        THEN TrainOut("skipped", "no new data since last training", n, -1, models, model_versions)
        ELSE The({ IF version_taken(horizon_weeks, model.version)
                   THEN TrainOut("IntegrityError", "", n, model.version,
                                 Put(models, horizon_weeks, model), model_versions)
                   ELSE TrainOut("trained", "", n, model.version,
                                 Put(models, horizon_weeks, model),
                                 Append(model_versions, model))
                   : model \in { fit_model(horizon_weeks, joined) } })

\* what train_calibration hands back to its caller
train_summary(t) ==
    [status |-> t.status, reason |-> t.reason, n_train |-> t.n_train, version |-> t.version]

\* ------------------------------------------------------------------------
\* Case lifecycle operations
\* ------------------------------------------------------------------------
\* an id generator that can repeat itself
uuid4_any == DynIds

\* uuid.uuid4(): an id it has never returned before
uuid4 == DynIds \ issued

\* str.strip(): drop the leading and the trailing blanks
RECURSIVE lstrip(_)
lstrip(t) == IF t # << >> /\ Head(t) = BLANK THEN lstrip(Tail(t)) ELSE t
RECURSIVE rstrip(_)
rstrip(t) ==
    IF t # << >> /\ t[Len(t)] = BLANK THEN rstrip(SubSeq(t, 1, Len(t) - 1)) ELSE t
strip(t) == rstrip(lstrip(t))

\* the forecast dict register, update and simulate return
Forecasts(f12, f24) ==
    [w12 |-> f12.p, w24 |-> f24.p, model_w12 |-> f12.tag, model_w24 |-> f24.tag]

register_case(labs, ctx, note, external_id) ==
    LET tsat0 == baseline_tsat(labs)
        args == [labs |-> labs, ctx |-> ctx, note |-> note, external_id |-> external_id]
    IN
    IF tsat0 = None
    THEN /\ ret' = Ret("register_case", args, "ValueError", NoOut)
         /\ UNCHANGED << cases, followups, models, model_versions, issued, clock >>
    ELSE \E case_id \in uuid4, f12 \in { predict_for_horizon(labs, ctx, 12) },
            f24 \in { predict_for_horizon(labs, ctx, 24) } :
         LET row == [created_at |-> now_ts, note |-> note, external_id |-> external_id,
                     hb0 |-> labs.hb, fe0 |-> labs.fe, ferritin0 |-> labs.ferritin,
                     tibc0 |-> labs.tibc, tsat0 |-> tsat0,
                     dose_mg_day |-> ctx.dose_mg_day, adherence |-> ctx.adherence,
                     bleed |-> ctx.bleed, inflam |-> ctx.inflam,
                     pred_w12 |-> pred_columns(f12.p), model_w12 |-> f12.tag,
                     pred_w24 |-> pred_columns(f24.p), model_w24 |-> f24.tag]
         IN  /\ issued' = issued \cup {case_id}
             /\ IF case_id \in DOMAIN cases
                THEN /\ ret' = Ret("register_case", args, "IntegrityError", NoOut)
                     /\ UNCHANGED cases
                ELSE /\ cases' = Put(cases, case_id, row)
                     /\ ret' = Ret("register_case", args, "ok",
                                   [case_id |-> case_id, forecasts |-> Forecasts(f12, f24)])
             /\ UNCHANGED << followups, models, model_versions, clock >>

\* an UPDATE that writes the empty note when the note is omitted
updated_row_clobber(row, ctx, f12, f24, note, external_id) ==
    [row EXCEPT !.dose_mg_day = ctx.dose_mg_day, !.adherence = ctx.adherence,
                !.bleed = ctx.bleed, !.inflam = ctx.inflam,
                !.pred_w12 = pred_columns(f12.p), !.model_w12 = f12.tag,
                !.pred_w24 = pred_columns(f24.p), !.model_w24 = f24.tag,
                !.note = IF note # None THEN note[1] ELSE << >>,
                !.external_id = IF external_id # None THEN external_id[1]
                                ELSE row.external_id]

\* the row UPDATE cases SET ... leaves behind; note and external_id are
\* optional arguments: None, or << text >>
updated_row(row, ctx, f12, f24, note, external_id) ==
    LET r1 == [row EXCEPT !.dose_mg_day = ctx.dose_mg_day, !.adherence = ctx.adherence,
                          !.bleed = ctx.bleed, !.inflam = ctx.inflam,
                          !.pred_w12 = pred_columns(f12.p), !.model_w12 = f12.tag,
                          !.pred_w24 = pred_columns(f24.p), !.model_w24 = f24.tag]
        r2 == IF note # None THEN [r1 EXCEPT !.note = note[1]] ELSE r1
    IN  IF external_id # None THEN [r2 EXCEPT !.external_id = external_id[1]] ELSE r2

update_case_context_and_predictions(case_id, ctx, note, external_id) ==
    LET row == get_case(case_id)
        args == [case_id |-> case_id, ctx |-> ctx, note |-> note, external_id |-> external_id]
    IN
    IF row = None
    THEN /\ ret' = Ret("update_case_context_and_predictions", args, "case not found", NoOut)
         /\ UNCHANGED << cases, followups, models, model_versions, issued, clock >>
    ELSE \E f12 \in { predict_for_horizon(row_labs(row), ctx, 12) },
            f24 \in { predict_for_horizon(row_labs(row), ctx, 24) } :
             /\ cases' = [c \in DOMAIN cases |->
                             IF c = case_id
                             THEN updated_row(cases[c], ctx, f12, f24, note, external_id)
                             ELSE cases[c]]
             /\ ret' = Ret("update_case_context_and_predictions", args, "ok",
                           [case_id |-> case_id, forecasts |-> Forecasts(f12, f24)])
             /\ UNCHANGED << followups, models, model_versions, issued, clock >>

\* a simulation that always uses the rule predictor
simulate_rule_only(row, ctx) ==
    Forecasts([p |-> rule_predict(row_labs(row), ctx, 12), tag |-> RULE_V1],
              [p |-> rule_predict(row_labs(row), ctx, 24), tag |-> RULE_V1])

\* what simulate_predictions_for_case computes from the stored row
simulate_forecasts(row, ctx) ==
    LET labs0 == row_labs(row)
    IN  Forecasts(predict_for_horizon(labs0, ctx, 12), predict_for_horizon(labs0, ctx, 24))

\* a simulation that saves what it computed, as an update does
simulate_and_store(case_id, ctx) ==
    LET row == get_case(case_id)
        args == [case_id |-> case_id, ctx |-> ctx]
    IN
    IF row = None
    THEN /\ ret' = Ret("simulate_predictions_for_case", args, "case not found", NoOut)
         /\ UNCHANGED << cases, followups, models, model_versions, issued, clock >>
    ELSE \E sim \in { simulate_forecasts(row, ctx) } :
             /\ cases' = [cases EXCEPT ![case_id].pred_w12 = pred_columns(sim.w12),
                                       ![case_id].pred_w24 = pred_columns(sim.w24),
                                       ![case_id].adherence = ctx.adherence]
             /\ ret' = Ret("simulate_predictions_for_case", args, "ok",
                           [case_id |-> case_id, forecasts |-> sim])
             /\ UNCHANGED << followups, models, model_versions, issued, clock >>

simulate_predictions_for_case(case_id, ctx) ==
    LET row == get_case(case_id)
        args == [case_id |-> case_id, ctx |-> ctx]
    IN
    /\ IF row = None
       THEN ret' = Ret("simulate_predictions_for_case", args, "case not found", NoOut)
       ELSE ret' = Ret("simulate_predictions_for_case", args, "ok",
                       [case_id |-> case_id, forecasts |-> simulate_forecasts(row, ctx)])
    /\ UNCHANGED << cases, followups, models, model_versions, issued, clock >>

NotFound == [found |-> FALSE, case_id |-> ""]
Found(case_id) == [found |-> TRUE, case_id |-> case_id]

\* a lookup that tries the external_id before the case_id
resolve_alias_first(identifier) ==
    IF identifier = << >> THEN {NotFound}
    ELSE LET ident == strip(identifier)
             by_case_id == { c \in DOMAIN cases : << c >> = ident }
             by_external_id == { c \in DOMAIN cases : cases[c].external_id = ident }
         IN  IF by_external_id # {} THEN { Found(c) : c \in by_external_id }
             ELSE IF by_case_id # {} THEN { Found(c) : c \in by_case_id }
             ELSE {NotFound}

\* the values resolve_case_id can return (fetchone takes any one of the rows
\* the alias query matches)
resolve_result(identifier) ==
    IF identifier = << >> THEN {NotFound}
    ELSE LET ident == strip(identifier)
             by_case_id == { c \in DOMAIN cases : << c >> = ident }
             by_external_id == { c \in DOMAIN cases : cases[c].external_id = ident }
         IN  IF by_case_id # {} THEN { Found(c) : c \in by_case_id }
             ELSE IF by_external_id # {} THEN { Found(c) : c \in by_external_id }
             ELSE {NotFound}

resolve_case_id(identifier) ==
    /\ \E out \in resolve_result(identifier) :
           ret' = Ret("resolve_case_id", [identifier |-> identifier], "ok", out)
    /\ UNCHANGED << cases, followups, models, model_versions, issued, clock >>

\* a delete that removes the case row and leaves its follow-ups behind
delete_case_only(case_id) ==
    /\ cases' = Drop(cases, {case_id})
    /\ ret' = Ret("delete_case", [case_id |-> case_id], "ok",
                  [deleted |-> TRUE, case_id |-> case_id])
    /\ UNCHANGED << followups, models, model_versions, issued, clock >>

\* a delete that refuses an id it does not find
delete_case_strict(case_id) ==
    IF case_id \in DOMAIN cases
    THEN /\ followups' = { f \in followups : f.case_id # case_id }
         /\ cases' = Drop(cases, {case_id})
         /\ ret' = Ret("delete_case", [case_id |-> case_id], "ok",
                       [deleted |-> TRUE, case_id |-> case_id])
         /\ UNCHANGED << models, model_versions, issued, clock >>
    ELSE /\ ret' = Ret("delete_case", [case_id |-> case_id], "case not found", NoOut)
         /\ UNCHANGED << cases, followups, models, model_versions, issued, clock >>

delete_case(case_id) ==
    /\ followups' = { f \in followups : f.case_id # case_id }
    /\ cases' = Drop(cases, {case_id})
    /\ ret' = Ret("delete_case", [case_id |-> case_id], "ok",
                  [deleted |-> TRUE, case_id |-> case_id])
    /\ UNCHANGED << models, model_versions, issued, clock >>

\* a standalone train_calibration call
train(horizon_weeks, force) ==
    \E t \in { train_calibration(horizon_weeks, force, followups) } :
    /\ models' = t.models
    /\ model_versions' = t.model_versions
    /\ ret' = Ret("train_calibration", [horizon_weeks |-> horizon_weeks, force |-> force],
                  IF t.status = "IntegrityError" THEN "IntegrityError" ELSE "ok",
                  train_summary(t))
    /\ UNCHANGED << cases, followups, issued, clock >>

\* an add_followup that stores the row whatever the horizon
add_followup_any_horizon(case_id, horizon_weeks, m) ==
    LET args == [case_id |-> case_id, horizon_weeks |-> horizon_weeks, m |-> m]
        tsat == IF m.tsat = None THEN calc_tsat(m.fe, m.tibc) ELSE m.tsat
    IN  \E fus \in { insert_or_replace(followups,
                          [case_id |-> case_id, horizon_weeks |-> horizon_weeks,
                           followup_at |-> now_ts, hb |-> m.hb, fe |-> m.fe,
                           ferritin |-> m.ferritin, tibc |-> m.tibc, tsat |-> tsat]) } :
        \E t \in { train_calibration(horizon_weeks, FALSE, fus) } :
            /\ followups' = fus
            /\ models' = t.models
            /\ model_versions' = t.model_versions
            /\ ret' = IF t.status = "IntegrityError"
                      THEN Ret("add_followup", args, "IntegrityError", NoOut)
                      ELSE Ret("add_followup", args, "ok",
                               [saved |-> TRUE, auto_calibration |-> train_summary(t)])
            /\ UNCHANGED << cases, issued, clock >>

add_followup(case_id, horizon_weeks, m) ==
    LET args == [case_id |-> case_id, horizon_weeks |-> horizon_weeks, m |-> m] IN
    IF horizon_weeks \notin HORIZONS
    THEN /\ ret' = Ret("add_followup", args, "ValueError", NoOut)
         /\ UNCHANGED << cases, followups, models, model_versions, issued, clock >>
    ELSE LET tsat == IF m.tsat = None THEN calc_tsat(m.fe, m.tibc) ELSE m.tsat IN
         \E fus \in { insert_or_replace(followups,
                           [case_id |-> case_id, horizon_weeks |-> horizon_weeks,
                            followup_at |-> now_ts, hb |-> m.hb, fe |-> m.fe,
                            ferritin |-> m.ferritin, tibc |-> m.tibc, tsat |-> tsat]) } :
         \E t \in { train_calibration(horizon_weeks, FALSE, fus) } :
             /\ followups' = fus
             /\ models' = t.models
             /\ model_versions' = t.model_versions
             /\ ret' = IF t.status = "IntegrityError"
                       THEN Ret("add_followup", args, "IntegrityError", NoOut)
                       ELSE Ret("add_followup", args, "ok",
                                [saved |-> TRUE, auto_calibration |-> train_summary(t)])
             /\ UNCHANGED << cases, issued, clock >>

\* a second of wall-clock time passes between two calls
Tick ==
    /\ clock < MaxClock
    /\ clock' = clock + 1
    /\ ret' = Ret("tick", NoArgs, "ok", NoOut)
    /\ UNCHANGED << cases, followups, models, model_versions, issued >>

\* ------------------------------------------------------------------------
\* A new database
\* ------------------------------------------------------------------------
\* init_db() on a new file, and no model.json yet
Init ==
    /\ cases = EmptyMap
    /\ followups = {}
    /\ models = EmptyMap
    /\ model_versions = << >>
    /\ issued = {}
    /\ clock = 0
    /\ ret = Ret("init_db", NoArgs, "ok", NoOut)
    /\ calls = 0
    /\ trainers = EmptyMap

\* a call, counted against the bound max, that runs from start to end with
\* no train_calibration in progress
Counted(max) == calls < max /\ calls' = calls + 1 /\ UNCHANGED trainers

\* the arguments calls are made with: every combination for the stored cases,
\* one call for each case id that is not stored and for each bad input
StoredIds == DOMAIN cases
UnknownIds == ((issued \cap DynIds) \ DOMAIN cases) \cup {GhostId}
ExtArgs == { << >>, << FirstDyn >> }
OptArgs == { << None, None >>, << << NOTE1 >>, << ALIAS >> >> }
IdentArgs == { << >>, << BLANK >>, << BLANK, "E1", BLANK >>, << FirstDyn >> }
RegisterArgs == ({L0} \X CtxArgs \X ExtArgs) \cup { << LBad, Ctx0, << >> >> }
UpdateArgs == (StoredIds \X CtxArgs \X OptArgs) \cup (UnknownIds \X {Ctx0} \X { << None, None >> })
SimulateArgs == (StoredIds \X CtxArgs) \cup (UnknownIds \X {Ctx0})
FollowupArgs == (StoredIds \X HORIZONS \X FollowArgs) \cup (UnknownIds \X {12} \X {FA})
                    \cup { << FirstDyn, 6, FA >> }

RegisterCase ==
    /\ Counted(MaxCalls)
    /\ \E a \in RegisterArgs : register_case(a[1], a[2], NOTE0, a[3])
UpdateCase ==
    /\ Counted(MaxCalls)
    /\ \E a \in UpdateArgs : update_case_context_and_predictions(a[1], a[2], a[3][1], a[3][2])
Simulate ==
    /\ Counted(MaxCalls)
    /\ \E a \in SimulateArgs : simulate_predictions_for_case(a[1], a[2])
Resolve ==
    /\ Counted(MaxCalls)
    /\ \E t \in IdentArgs : resolve_case_id(t)
DeleteCase ==
    /\ Counted(MaxCalls)
    /\ \E c \in StoredIds \cup UnknownIds : delete_case(c)
Train ==
    /\ Counted(MaxCalls)
    /\ \E h \in HORIZONS, force \in BOOLEAN : train(h, force)
AddFollowup ==
    /\ Counted(MaxCalls)
    /\ \E a \in FollowupArgs : add_followup(a[1], a[2], a[3])
Pass ==
    /\ Counted(MaxCalls)
    /\ Tick

Next ==
    \/ RegisterCase
    \/ UpdateCase
    \/ Simulate
    \/ Resolve
    \/ DeleteCase
    \/ Train
    \/ AddFollowup
    \/ Pass

Spec == Init /\ [][Next]_vars

\* ------------------------------------------------------------------------
\* A database one follow-up short of the first automatic fit
\* ------------------------------------------------------------------------
\* the row register_case(L0, Ctx0, NOTE0, "") writes at second 0 into an
\* empty model store, and the row add_followup(id, 12, FA) writes for it
SeedCase ==
    [created_at |-> 0, note |-> NOTE0, external_id |-> << >>,
     hb0 |-> L0.hb, fe0 |-> L0.fe, ferritin0 |-> L0.ferritin,
     tibc0 |-> L0.tibc, tsat0 |-> baseline_tsat(L0),
     dose_mg_day |-> Ctx0.dose_mg_day, adherence |-> Ctx0.adherence,
     bleed |-> Ctx0.bleed, inflam |-> Ctx0.inflam,
     pred_w12 |-> pred_columns(rule_predict(L0, Ctx0, 12)), model_w12 |-> RULE_V1,
     pred_w24 |-> pred_columns(rule_predict(L0, Ctx0, 24)), model_w24 |-> RULE_V1]
SeedFollowup(case_id) ==
    [case_id |-> case_id, horizon_weeks |-> 12, followup_at |-> 0,
     hb |-> FA.hb, fe |-> FA.fe, ferritin |-> FA.ferritin,
     tibc |-> FA.tibc, tsat |-> calc_tsat(FA.fe, FA.tibc)]

\* init_db() on a new file, then SeedRows register_case calls each followed
\* by add_followup at 12 weeks (every automatic fit skipped: fewer than
\* AUTO_CAL_MIN_N rows), all within second 0
InitSeeded ==
    /\ cases = [c \in SeedIds |-> SeedCase]
    /\ followups = { SeedFollowup(c) : c \in SeedIds }
    /\ models = EmptyMap
    /\ model_versions = << >>
    /\ issued = SeedIds
    /\ clock = 0
    /\ ret = Ret("init_db", NoArgs, "ok", NoOut)
    /\ calls = 0
    /\ trainers = EmptyMap

CalIds == DOMAIN cases \cap DynIds

CalRegister ==
    /\ Counted(MaxCalCalls)
    /\ register_case(L0, Ctx1, NOTE0, << >>)
CalAddFollowup ==
    /\ Counted(MaxCalCalls)
    /\ \E c \in CalIds, m \in FollowArgs : add_followup(c, 12, m)
CalDelete ==
    /\ Counted(MaxCalCalls)
    /\ \E c \in CalIds : delete_case(c)
CalTrain ==
    /\ Counted(MaxCalCalls)
    /\ \E force \in BOOLEAN : train(12, force)
CalPass ==
    /\ Counted(MaxCalCalls)
    /\ Tick

NextCal ==
    \/ CalRegister
    \/ CalAddFollowup
    \/ CalDelete
    \/ CalTrain
    \/ CalPass

SpecCal == InitSeeded /\ [][NextCal]_vars

\* ------------------------------------------------------------------------
\* Properties
\* ------------------------------------------------------------------------
IsCall(r, op) == r.op = op
UPDATE == "update_case_context_and_predictions"
SIMULATE == "simulate_predictions_for_case"

\* C1 (calibration gating): a train_calibration(h, force=False) call returns
\* "skipped" and leaves the model store as it was when h has fewer than
\* AUTO_CAL_MIN_N join rows; with exactly AUTO_CAL_MIN_N rows and no current
\* model for h whose n_train is already AUTO_CAL_MIN_N it returns "trained"
\* and the model store then holds a model for h with n_train = AUTO_CAL_MIN_N.
C1_CalibrationGating ==
    [][ (IsCall(ret', "train_calibration") /\ ~ret'.args.force) =>
        LET h == ret'.args.horizon_weeks
            n == Cardinality(fetch_training_rows(h, followups))
        IN  /\ (n < AUTO_CAL_MIN_N) =>
                   (ret'.status = "ok" /\ ret'.out.status = "skipped" /\ models' = models)
            /\ (n = AUTO_CAL_MIN_N
                  /\ ~(h \in DOMAIN models /\ models[h].n_train = AUTO_CAL_MIN_N)) =>
                   (/\ ret'.status = "ok"
                    /\ ret'.out.status = "trained"
                    /\ h \in DOMAIN models'
                    /\ models'[h].n_train = AUTO_CAL_MIN_N) ]_vars

\* the follow-up rows stored under the key of the add_followup call r
RowsOfCall(r) ==
    { f \in followups : f.case_id = r.args.case_id
                        /\ f.horizon_weeks = r.args.horizon_weeks }

\* C2 (idempotent follow-up): there is never more than one follow-up row for a
\* (case_id, horizon_weeks), and after an add_followup call the row of its
\* (case_id, horizon) holds the values that call measured.
C2_IdempotentFollowup ==
    /\ \A f, g \in followups :
           (f.case_id = g.case_id /\ f.horizon_weeks = g.horizon_weeks) => f = g
    /\ (IsCall(ret, "add_followup") /\ ret.args.horizon_weeks \in HORIZONS) =>
           /\ Cardinality(RowsOfCall(ret)) = 1
           /\ \A f \in RowsOfCall(ret) :
                  /\ f.hb = ret.args.m.hb
                  /\ f.fe = ret.args.m.fe
                  /\ f.ferritin = ret.args.m.ferritin
                  /\ f.tibc = ret.args.m.tibc

\* a second add_followup for the only case there ever was: the 12-week model,
\* fitted by hand on its one row, still shows the hb of the first call (FA),
\* and the call that just returned measured FB
C2_Witness ==
    /\ IsCall(ret, "add_followup")
    /\ ret.args.horizon_weeks = 12
    /\ ret.args.m = FB
    /\ DOMAIN cases = {ret.args.case_id}
    /\ Cardinality(issued) = 1
    /\ 12 \in DOMAIN models
    /\ models[12].n_train = 1
    /\ models[12].adjustments.hb.bias = RSub(FA.hb, rule_predict(L0, Ctx0, 12).Hb)
    /\ \E f \in followups : f.case_id = ret.args.case_id /\ f.hb = FB.hb

\* C3 (identifier resolution precedence): when the identifier, stripped, is
\* the case_id of a stored case, resolve_case_id returns that case_id, whatever
\* external_ids are stored; it returns a case by its external_id only when no
\* stored case has the identifier as its case_id.
C3_ResolvePrecedence ==
    IsCall(ret, "resolve_case_id") =>
        LET ident == strip(ret.args.identifier)
            exact == { c \in DOMAIN cases : << c >> = ident }
        IN  /\ (ret.args.identifier # << >> /\ exact # {}) =>
                   (ret.out.found /\ ret.out.case_id \in exact)
            /\ (ret.out.found /\ ret.out.case_id \notin exact) =>
                   /\ exact = {}
                   /\ ret.out.case_id \in DOMAIN cases
                   /\ cases[ret.out.case_id].external_id = ident

\* case B carries A's case_id as its external_id, and resolving that string
\* gave A
C3_Witness ==
    /\ IsCall(ret, "resolve_case_id")
    /\ \E A \in DOMAIN cases, B \in DOMAIN cases :
           /\ A # B
           /\ cases[B].external_id = << A >>
           /\ ret.args.identifier = << A >>
           /\ ret.out = Found(A)

\* C4 (best-effort auto-calibration): every add_followup call with a horizon
\* in HORIZONS returns saved = true with the training result, and its row is
\* stored, whatever the automatic training step did.
C4_BestEffortAutoCalibration ==
    (IsCall(ret, "add_followup") /\ ret.args.horizon_weeks \in HORIZONS) =>
        /\ ret.status = "ok"
        /\ ret.out.saved
        /\ RowsOfCall(ret) # {}

\* C5 (follow-up ownership): every stored follow-up row belongs to a stored
\* case, and an add_followup call for a case_id that matches no stored case
\* fails with a not-found error and stores no row.
C5_FollowupOwnership ==
    /\ \A f \in followups : f.case_id \in DOMAIN cases
    /\ (IsCall(ret, "add_followup") /\ ret.args.case_id \notin DOMAIN cases) =>
           (ret.status = "case not found" /\ RowsOfCall(ret) = {})

\* C6 (unknown case): update_case_context_and_predictions and
\* simulate_predictions_for_case called with a case_id that is not stored fail
\* with "case not found" and leave cases, follow-ups, model store and model
\* history as they were.
C6_UnknownCaseNotFound ==
    [][ ((IsCall(ret', UPDATE) \/ IsCall(ret', SIMULATE))
            /\ ret'.args.case_id \notin DOMAIN cases) =>
        /\ ret'.status = "case not found"
        /\ cases' = cases
        /\ followups' = followups
        /\ models' = models
        /\ model_versions' = model_versions ]_vars

\* an update was refused for the id of a case that had been deleted, with
\* another case on file
C6_Witness ==
    /\ IsCall(ret, UPDATE)
    /\ ret.status = "case not found"
    /\ ret.args.case_id \in issued \ DOMAIN cases
    /\ DOMAIN cases # {}

\* C7 (simulate never persists): a simulate_predictions_for_case call leaves
\* every case row, all follow-ups, the model store and the model history as
\* they were.
C7_SimulateNeverPersists ==
    [][ IsCall(ret', SIMULATE) =>
        /\ cases' = cases
        /\ followups' = followups
        /\ models' = models
        /\ model_versions' = model_versions ]_vars

\* a simulation came back for a stored case with a ctx other than the stored
\* one, and the stored 12-week prediction is not the simulated one
C7_Witness ==
    /\ IsCall(ret, SIMULATE)
    /\ ret.status = "ok"
    /\ ret.args.case_id \in DOMAIN cases
    /\ cases[ret.args.case_id].adherence # ret.args.ctx.adherence
    /\ cases[ret.args.case_id].pred_w12 # pred_columns(ret.out.forecasts.w12)

\* C8 (simulate equals update): what an update call returns and stores as the
\* 12- and 24-week forecasts and model tags is what
\* simulate_predictions_for_case returns for the same case_id and ctx in the
\* state the update started from.
C8_SimulateEqualsUpdate ==
    [][ (IsCall(ret', UPDATE) /\ ret'.status = "ok") =>
        LET c == ret'.args.case_id
            sim == simulate_forecasts(cases[c], ret'.args.ctx)
        IN  /\ ret'.out.forecasts = sim
            /\ cases'[c].pred_w12 = pred_columns(sim.w12)
            /\ cases'[c].model_w12 = sim.model_w12
            /\ cases'[c].pred_w24 = pred_columns(sim.w24)
            /\ cases'[c].model_w24 = sim.model_w24 ]_vars

\* an update returned forecasts made with a calibrated 12-week model
C8_Witness ==
    /\ IsCall(ret, UPDATE)
    /\ ret.status = "ok"
    /\ 12 \in DOMAIN models
    /\ ret.out.forecasts.model_w12 = calibrated_tag(models[12].version)
    /\ ret.out.forecasts.w12.Hb # rule_predict(L0, ret.args.ctx, 12).Hb

\* C9 (update frame): an update of a stored case writes the new ctx and the
\* forecasts (with tags) computed from the stored baseline and the new ctx,
\* and leaves the case's created_at and baseline, its note and external_id
\* when omitted, the set of case ids, every other case, all follow-ups and the
\* model store as they were.
C9_UpdateFrame ==
    [][ (IsCall(ret', UPDATE) /\ ret'.args.case_id \in DOMAIN cases) =>
        LET c == ret'.args.case_id
            ctx == ret'.args.ctx
            old == cases[c]
            new == cases'[c]
            f12 == predict_for_horizon(row_labs(old), ctx, 12)
            f24 == predict_for_horizon(row_labs(old), ctx, 24)
        IN  /\ ret'.status = "ok"
            /\ DOMAIN cases' = DOMAIN cases
            /\ new.dose_mg_day = ctx.dose_mg_day
            /\ new.adherence = ctx.adherence
            /\ new.bleed = ctx.bleed
            /\ new.inflam = ctx.inflam
            /\ new.pred_w12 = pred_columns(f12.p) /\ new.model_w12 = f12.tag
            /\ new.pred_w24 = pred_columns(f24.p) /\ new.model_w24 = f24.tag
            /\ new.created_at = old.created_at
            /\ new.hb0 = old.hb0 /\ new.fe0 = old.fe0 /\ new.ferritin0 = old.ferritin0
            /\ new.tibc0 = old.tibc0 /\ new.tsat0 = old.tsat0
            /\ (ret'.args.note = None) => (new.note = old.note)
            /\ (ret'.args.external_id = None) => (new.external_id = old.external_id)
            /\ \A o \in DOMAIN cases \ {c} : cases'[o] = cases[o]
            /\ followups' = followups
            /\ models' = models ]_vars

\* an update without note and external_id changed the adherence of one of two
\* stored cases, the other keeping the adherence it was registered with, with
\* a follow-up on file
C9_Witness ==
    /\ IsCall(ret, UPDATE)
    /\ ret.status = "ok"
    /\ ret.args.note = None
    /\ ret.args.external_id = None
    /\ ret.args.ctx = Ctx1
    /\ cases[ret.args.case_id].adherence = Ctx1.adherence
    /\ cases[ret.args.case_id].note = NOTE0
    /\ \E o \in DOMAIN cases \ {ret.args.case_id} : cases[o].adherence = Ctx0.adherence
    /\ followups # {}

\* C10 (registration): register_case with a derivable TSAT stores exactly one
\* more case, under a case_id no stored case had, with the 12- and 24-week
\* predictions and tags predict_for_horizon gives for the labs and ctx against
\* the model store of that moment; the cases already stored, the follow-ups
\* and the model store stay as they were.
C10_RegisterAddsOneCase ==
    [][ (IsCall(ret', "register_case") /\ baseline_tsat(ret'.args.labs) # None) =>
        /\ ret'.status = "ok"
        /\ LET id == ret'.out.case_id
               f12 == predict_for_horizon(ret'.args.labs, ret'.args.ctx, 12)
               f24 == predict_for_horizon(ret'.args.labs, ret'.args.ctx, 24)
           IN  /\ id \notin DOMAIN cases
               /\ DOMAIN cases' = DOMAIN cases \cup {id}
               /\ cases'[id].pred_w12 = pred_columns(f12.p) /\ cases'[id].model_w12 = f12.tag
               /\ cases'[id].pred_w24 = pred_columns(f24.p) /\ cases'[id].model_w24 = f24.tag
               /\ \A c \in DOMAIN cases : cases'[c] = cases[c]
               /\ followups' = followups
               /\ models' = models ]_vars

\* a second case was registered while a calibrated 12-week model was current
C10_Witness ==
    /\ IsCall(ret, "register_case")
    /\ ret.status = "ok"
    /\ Cardinality(DOMAIN cases) = 2
    /\ 12 \in DOMAIN models
    /\ cases[ret.out.case_id].model_w12 = calibrated_tag(models[12].version)
    /\ \E o \in DOMAIN cases : cases[o].model_w12 = RULE_V1

\* C11 (delete cascades): right after delete_case(c) no case and no follow-up
\* row with case_id c is stored, and every other case and every follow-up of
\* another case is as it was.
C11_DeleteCascades ==
    [][ IsCall(ret', "delete_case") =>
        LET c == ret'.args.case_id
        IN  /\ c \notin DOMAIN cases'
            /\ \A f \in followups' : f.case_id # c
            /\ DOMAIN cases' = DOMAIN cases \ {c}
            /\ \A o \in DOMAIN cases \ {c} : cases'[o] = cases[o]
            /\ { f \in followups' : f.case_id # c } = { f \in followups : f.case_id # c } ]_vars

\* the eleventh case was deleted after its follow-up had been fitted: the
\* model counts eleven rows, ten cases and their ten follow-ups are on file
C11_Witness ==
    /\ IsCall(ret, "delete_case")
    /\ ret.args.case_id \in issued \ DOMAIN cases
    /\ 12 \in DOMAIN models
    /\ models[12].n_train = AUTO_CAL_MIN_N
    /\ DOMAIN cases = SeedIds
    /\ followups = { SeedFollowup(c) : c \in SeedIds }

\* C12 (delete is idempotent): delete_case for a case_id that is not stored
\* raises nothing, returns the deletion confirmation and leaves the cases, the
\* follow-ups of stored cases, the model store and the model history as they
\* were.
C12_DeleteIdempotent ==
    [][ (IsCall(ret', "delete_case") /\ ret'.args.case_id \notin DOMAIN cases) =>
        /\ ret'.status = "ok"
        /\ ret'.out = [deleted |-> TRUE, case_id |-> ret'.args.case_id]
        /\ cases' = cases
        /\ { f \in followups' : f.case_id \in DOMAIN cases }
               = { f \in followups : f.case_id \in DOMAIN cases }
        /\ models' = models
        /\ model_versions' = model_versions ]_vars

\* a delete for an id no case ever had came back, with a case and its
\* follow-up on file
C12_Witness ==
    /\ IsCall(ret, "delete_case")
    /\ ret.args.case_id = GhostId
    /\ ret.status = "ok"
    /\ \E f \in followups : f.case_id \in DOMAIN cases

\* the calls that predict, and what they predicted from and returned
IsPrediction(r) ==
    /\ r.op \in {"register_case", UPDATE, SIMULATE}
    /\ r.status = "ok"
PredictedLabs(r) ==
    IF r.op = "register_case" THEN r.args.labs ELSE row_labs(cases[r.args.case_id])
ReturnedTag(r, h) == IF h = 12 THEN r.out.forecasts.model_w12 ELSE r.out.forecasts.model_w24
ReturnedForecast(r, h) == IF h = 12 THEN r.out.forecasts.w12 ELSE r.out.forecasts.w24

\* C13 (model tag): a prediction for horizon h is tagged calibrated:<version>
\* with the version of the current model for h when the model store holds a
\* model for h; when it holds none the tag is rule_v1 and the forecast is
\* rule_predict(labs, ctx, h) unmodified.
C13_ModelTag ==
    IsPrediction(ret) =>
        \A h \in HORIZONS :
            /\ (h \in DOMAIN models) =>
                   ReturnedTag(ret, h) = calibrated_tag(models[h].version)
            /\ (h \notin DOMAIN models) =>
                   /\ ReturnedTag(ret, h) = RULE_V1
                   /\ ReturnedForecast(ret, h) = rule_predict(PredictedLabs(ret), ret.args.ctx, h)

\* a case was registered with a model on file for 12 weeks and none for 24:
\* one forecast of each kind
C13_Witness ==
    /\ IsCall(ret, "register_case")
    /\ ret.status = "ok"
    /\ DOMAIN models = {12}
    /\ ret.out.forecasts.model_w12 # RULE_V1
    /\ ret.out.forecasts.model_w24 = RULE_V1
    /\ ret.out.forecasts.w12 # rule_predict(ret.args.labs, ret.args.ctx, 12)

\* what the training step of the call r reported
TrainingReport(r) == IF r.op = "add_followup" THEN r.out.auto_calibration ELSE r.out
ReportsTrained(r, h) ==
    /\ r.op \in {"add_followup", "train_calibration"}
    /\ r.status = "ok"
    /\ r.args.horizon_weeks = h
    /\ TrainingReport(r).status = "trained"

\* C14 (retraining is visible at once): when an add_followup or
\* train_calibration call for horizon h has returned "trained" with version
\* v, the prediction for h made by the very next call is tagged
\* calibrated:v.
C14_RetrainingVisible ==
    [][ \A h \in HORIZONS :
            (ReportsTrained(ret, h) /\ IsPrediction(ret')) =>
                ReturnedTag(ret', h) = calibrated_tag(TrainingReport(ret).version) ]_vars

\* the fourth call of a run predicted with a model: three calls (register,
\* follow up, train) are the fewest that put one on file, so the training
\* was the call before
C14_Witness ==
    /\ calls = 4
    /\ IsPrediction(ret)
    /\ 12 \in DOMAIN models
    /\ ReturnedTag(ret, 12) = calibrated_tag(models[12].version)
    /\ ReturnedForecast(ret, 12) # rule_predict(PredictedLabs(ret), ret.args.ctx, 12)

\* ------------------------------------------------------------------------
\* The seeded database without forced training
\* ------------------------------------------------------------------------
AutoTrain ==
    /\ Counted(MaxCalCalls)
    /\ train(12, FALSE)
AutoUpdate ==
    /\ Counted(MaxCalCalls)
    /\ \E c \in CalIds, ctx \in CtxArgs :
           update_case_context_and_predictions(c, ctx, None, None)

NextAuto ==
    \/ CalRegister
    \/ CalAddFollowup
    \/ CalDelete
    \/ AutoTrain
    \/ AutoUpdate
    \/ CalPass

SpecAuto == InitSeeded /\ [][NextAuto]_vars

\* C15 (minimum-data rule): a horizon that has fewer than AUTO_CAL_MIN_N
\* case-follow-up join rows has no model in the model store, and a prediction
\* for it is tagged rule_v1.
C15_MinimumData ==
    \A h \in HORIZONS :
        (Cardinality(fetch_training_rows(h, followups)) < AUTO_CAL_MIN_N) =>
            /\ h \notin DOMAIN models
            /\ IsPrediction(ret) => ReturnedTag(ret, h) = RULE_V1

\* C16 (every recorded follow-up is learned from): after an add_followup call
\* for horizon h has returned, if h has at least AUTO_CAL_MIN_N join rows the
\* current model for h is the fit over exactly the join rows stored then.
C16_FollowupLearned ==
    (IsCall(ret, "add_followup") /\ ret.status = "ok") =>
        LET h == ret.args.horizon_weeks
            joined == fetch_training_rows(h, followups)
        IN  (Cardinality(joined) >= AUTO_CAL_MIN_N) =>
                /\ h \in DOMAIN models
                /\ models[h].n_train = Cardinality(joined)
                /\ models[h].adjustments = fit_model(h, joined).adjustments

\* the positions of horizon h's entries in the model history
HistoryOf(h) == { i \in 1..Len(model_versions) : model_versions[i].horizon_weeks = h }

\* C17 (current model equals latest history entry): for each horizon with a
\* model in the model store, that model is the last entry appended to
\* model_versions for the horizon.
C17_CurrentIsLatestHistory ==
    \A h \in DOMAIN models :
        /\ HistoryOf(h) # {}
        /\ \A i \in HistoryOf(h) :
               (\A j \in HistoryOf(h) : j <= i) => model_versions[i] = models[h]

\* ------------------------------------------------------------------------
\* The predictors on their own
\* ------------------------------------------------------------------------
\* baselines: the worked example's, and hb, ferritin, TSAT and TIBC far
\* outside the ranges the forecasts are kept in; the last two have no TIBC,
\* one of them no TSAT either
PureIron ==
    { [fe |-> Z(50), tibc |-> Z(300), tsat |-> None],
      [fe |-> Z(50), tibc |-> Z(300), tsat |-> Z(90)],
      [fe |-> Z(1000), tibc |-> Z(10), tsat |-> None],
      [fe |-> Z(50), tibc |-> Z(3000), tsat |-> None],
      [fe |-> Z(50), tibc |-> Z(0), tsat |-> None],
      [fe |-> Z(50), tibc |-> Z(0), tsat |-> Z(30)] }
PureLabs ==
    { [hb |-> hb, fe |-> i.fe, ferritin |-> ferritin, tibc |-> i.tibc, tsat |-> i.tsat]
      : hb \in {Z(-5), Z(10), Z(30)}, ferritin \in {Z(20), Z(1000)}, i \in PureIron }
PureCtx ==
    { [dose_mg_day |-> dose, adherence |-> adherence, bleed |-> bleed, inflam |-> inflam]
      : dose \in {0, 500, 5000}, adherence \in {Z(0), Z(1), Z(100)},
        bleed \in {Z(0), Z(100)}, inflam \in {Z(0), Z(100)} }
\* a model whose three heads have bias b and every weight w
PureModel(b, w) ==
    LET adj == [bias |-> b, weights |-> [k \in Features |-> w]]
    IN  [version |-> 0, trained_at |-> 0, horizon_weeks |-> 12, n_train |-> AUTO_CAL_MIN_N,
         adjustments |-> [hb |-> adj, tsat |-> adj, ferritin |-> adj]]
PureModels == { PureModel(Z(0), Z(0)), PureModel(Z(100), Z(10)), PureModel(Z(-100), Z(-10)) }

\* the arguments of one rule_predict or calibrated_predict call, not yet made
InitPure ==
    /\ cases = EmptyMap
    /\ followups = {}
    /\ models = EmptyMap
    /\ model_versions = << >>
    /\ issued = {}
    /\ clock = 0
    /\ calls = 0
    /\ trainers = EmptyMap
    /\ \E labs \in PureLabs, ctx \in PureCtx, horizon_weeks \in HORIZONS, model \in PureModels :
           ret = Ret("inputs", [labs |-> labs, ctx |-> ctx,
                                horizon_weeks |-> horizon_weeks, model |-> model],
                     "ok", NoOut)

\* rule_predict(labs, ctx, horizon_weeks): what it returns, and the
\* quantities it computed on the way
RulePredict ==
    /\ ret.op = "inputs"
    /\ calls' = calls + 1
    /\ UNCHANGED trainers
    /\ ret' = IF rule_predict_raises(ret.args.labs)
              THEN Ret("rule_predict", ret.args, "ValueError", NoOut)
              ELSE Ret("rule_predict", ret.args, "ok",
                       [forecast |-> rule_predict(ret.args.labs, ret.args.ctx,
                                                  ret.args.horizon_weeks),
                        terms |-> rule_terms(ret.args.labs, ret.args.ctx,
                                             ret.args.horizon_weeks)])
    /\ UNCHANGED << cases, followups, models, model_versions, issued, clock >>

\* calibrated_predict(labs, ctx, horizon_weeks, model)
CalibratedPredict ==
    /\ ret.op = "inputs"
    /\ calls' = calls + 1
    /\ UNCHANGED trainers
    /\ ret' = IF rule_predict_raises(ret.args.labs)
              THEN Ret("calibrated_predict", ret.args, "ValueError", NoOut)
              ELSE Ret("calibrated_predict", ret.args, "ok",
                       [forecast |-> calibrated_predict(ret.args.labs, ret.args.ctx,
                                                        ret.args.horizon_weeks,
                                                        ret.args.model)])
    /\ UNCHANGED << cases, followups, models, model_versions, issued, clock >>

\* register_case(labs, ctx) on a new database
PureRegister ==
    /\ ret.op = "inputs"
    /\ calls' = calls + 1
    /\ UNCHANGED trainers
    /\ register_case(ret.args.labs, ret.args.ctx, NOTE0, << >>)

NextPure ==
    \/ RulePredict
    \/ CalibratedPredict
    \/ PureRegister

SpecPure == InitPure /\ [][NextPure]_vars

Within(x, lo, hi) == RLe(lo, x) /\ RLe(x, hi)

\* C18 (clamping): whatever the labs (with a TSAT), the ctx, the horizon and
\* the model, the forecast of rule_predict and of calibrated_predict has
\* TSAT in [5, 40], Hb in [5, 17.5], Ferritin in [1, 250] and Fe in [1, 400].
C18_Clamping ==
    (ret.op \in {"rule_predict", "calibrated_predict"} /\ ret.status = "ok") =>
        /\ Within(ret.out.forecast.TSAT, Z(5), Z(40))
        /\ Within(ret.out.forecast.Hb, Z(5), Q(35, 2))
        /\ Within(ret.out.forecast.Ferritin, Z(1), Z(250))
        /\ Within(ret.out.forecast.Fe, Z(1), Z(400))

\* a calibrated forecast for an hb of 30 under a model that adds hundreds
\* came back at the upper ends
C18_Witness ==
    /\ ret.op = "calibrated_predict"
    /\ ret.status = "ok"
    /\ ret.args.labs.hb = Z(30)
    /\ ret.args.model = PureModel(Z(100), Z(10))
    /\ ret.args.ctx.dose_mg_day = 5000
    /\ ret.out.forecast.Hb = Q(35, 2)
    /\ ret.out.forecast.TSAT = Z(40)
    /\ ret.out.forecast.Ferritin = Z(250)

\* C19 (horizon scaling): for the same labs and ctx the TSAT increment
\* 10*eff*scale, delta_hb and ferritin_gain of rule_predict at horizon 24 are
\* each exactly twice what they are at horizon 12.
C19_HorizonScaling ==
    (ret.op = "rule_predict" /\ ret.status = "ok" /\ ret.args.horizon_weeks = 24) =>
        LET w24 == ret.out.terms
            w12 == rule_terms(ret.args.labs, ret.args.ctx, 12)
        IN  /\ w24.tsat_inc = RMul(Z(2), w12.tsat_inc)
            /\ w24.delta_hb = RMul(Z(2), w12.delta_hb)
            /\ w24.ferritin_gain = RMul(Z(2), w12.ferritin_gain)

\* C20 (worked example): for Labs(hb 10, fe 50, ferritin 20, tibc 300, no
\* tsat), Ctx(dose 500, adherence 1, bleed 0, inflam 0) and horizon 12,
\* rule_predict computes tsat0 = 16.67 and tsat1 = tsat0 + 10 = 26.67 (to two
\* decimals), delta_hb = 0.5375, and returns Hb 10.54, Ferritin 50.0, Fe 80.0
\* and no alerts.
C20_WorkedExample ==
    (ret.op = "rule_predict" /\ ret.args.labs = L0 /\ ret.args.ctx = Ctx0
        /\ ret.args.horizon_weeks = 12) =>
        /\ ret.status = "ok"
        /\ Within(ret.out.terms.tsat0, Q(16665, 1000), Q(16675, 1000))
        /\ ret.out.terms.tsat1 = RAdd(ret.out.terms.tsat0, Z(10))
        /\ Within(ret.out.terms.tsat1, Q(26665, 1000), Q(26675, 1000))
        /\ ret.out.terms.delta_hb = Q(5375, 10000)
        /\ ret.out.forecast.Hb = Q(1054, 100)
        /\ ret.out.forecast.Ferritin = Z(50)
        /\ ret.out.forecast.Fe = Z(80)
        /\ ret.out.forecast.alerts = {}

\* rule_predict was called with the example's arguments
C20_Witness ==
    /\ ret.op = "rule_predict"
    /\ ret.status = "ok"
    /\ ret.args.labs = L0
    /\ ret.args.ctx = Ctx0
    /\ ret.args.horizon_weeks = 12
    /\ ret.out.forecast.TSAT = Q(267, 10)

\* the TSAT of labs cannot be derived: none given, and no positive TIBC
NoTsat(labs) == labs.tsat = None /\ RLe(labs.tibc, Z(0))

\* C21 (input error): rule_predict, calibrated_predict and register_case
\* raise the input error exactly when labs.tsat is absent and labs.tibc <= 0;
\* register_case then stores no case and changes nothing else.
C21_InputError ==
    [][ (ret'.op \in {"rule_predict", "calibrated_predict", "register_case"}) =>
        /\ (ret'.status = "ValueError") <=> NoTsat(ret'.args.labs)
        /\ (ret'.op = "register_case" /\ NoTsat(ret'.args.labs)) =>
               /\ cases' = cases
               /\ followups' = followups
               /\ models' = models
               /\ model_versions' = model_versions
        /\ (ret'.op = "register_case" /\ ~NoTsat(ret'.args.labs)) =>
               cases'[ret'.out.case_id].tsat0 =
                   IF ret'.args.labs.tsat # None THEN ret'.args.labs.tsat
                   ELSE RDiv(RMul(Z(100), ret'.args.labs.fe), ret'.args.labs.tibc) ]_vars

\* a registration without TSAT and with TIBC 0 was refused
C21_Witness ==
    /\ IsCall(ret, "register_case")
    /\ ret.status = "ValueError"
    /\ ret.args.labs.tsat = None
    /\ ret.args.labs.tibc = Z(0)
    /\ cases = EmptyMap

\* ------------------------------------------------------------------------
\* Two trainings at once
\* ------------------------------------------------------------------------
\* two cases, each with a follow-up at both horizons
ConcIds == { UUIDS[1], UUIDS[2] }
ConcFollowup(case_id, horizon_weeks, m) ==
    [case_id |-> case_id, horizon_weeks |-> horizon_weeks, followup_at |-> 0,
     hb |-> m.hb, fe |-> m.fe, ferritin |-> m.ferritin, tibc |-> m.tibc,
     tsat |-> IF m.tsat = None THEN calc_tsat(m.fe, m.tibc) ELSE m.tsat]

\* a train_calibration(horizon_weeks, force) call about to start
Trainer(force) ==
    [pc |-> "fetch", force |-> force, rows |-> {}, models_all |-> EmptyMap,
     model |-> None, result |-> NoOut]

InitConc ==
    /\ cases = [c \in ConcIds |-> SeedCase]
    /\ \E m \in [HORIZONS -> FollowArgs] :
           followups = { ConcFollowup(c, h, m[h]) : c \in ConcIds, h \in HORIZONS }
    /\ models = EmptyMap
    /\ model_versions = << >>
    /\ issued = ConcIds
    /\ clock = 0
    /\ ret = Ret("init_db", NoArgs, "ok", NoOut)
    /\ calls = 0
    /\ \E force \in [HORIZONS -> BOOLEAN] :
           trainers = [h \in HORIZONS |-> Trainer(force[h])]

\* the call of trainer h returns
ConcReturn(h, t, status, reason, version) ==
    /\ trainers' = [trainers EXCEPT ![h] =
           [t EXCEPT !.pc = "done",
                     !.result = [status |-> status, reason |-> reason,
                                 n_train |-> Cardinality(t.rows), version |-> version]]]
    /\ ret' = Ret("train_calibration", [horizon_weeks |-> h, force |-> t.force],
                  IF status = "IntegrityError" THEN "IntegrityError" ELSE "ok",
                  [status |-> status, reason |-> reason,
                   n_train |-> Cardinality(t.rows), version |-> version])
    /\ calls' = calls + 1

\* rows = _fetch_training_rows(horizon_weeks), and the two gates on n
ConcFetch ==
    \E h \in DOMAIN trainers :
        /\ trainers[h].pc = "fetch"
        /\ \E rows \in { fetch_training_rows(h, followups) } :
           LET t == [trainers[h] EXCEPT !.rows = rows] IN
           IF rows = {}
           THEN ConcReturn(h, t, "skipped", "no followup data for training", -1)
           ELSE IF (~t.force) /\ Cardinality(rows) < AUTO_CAL_MIN_N
           THEN ConcReturn(h, t, "skipped", "training rows < AUTO_CAL_MIN_N", -1)
           ELSE /\ trainers' = [trainers EXCEPT ![h] = [t EXCEPT !.pc = "load"]]
                /\ UNCHANGED << ret, calls >>
        /\ UNCHANGED << cases, followups, models, model_versions, issued, clock >>

\* models_all = load_models(), and the gate on the current model's n_train
ConcLoad ==
    \E h \in DOMAIN trainers :
        /\ trainers[h].pc = "load"
        /\ LET t == [trainers[h] EXCEPT !.models_all = models] IN
           IF (~t.force) /\ h \in DOMAIN models /\ models[h].n_train = Cardinality(t.rows)
           THEN ConcReturn(h, t, "skipped", "no new data since last training", -1)
           ELSE /\ trainers' = [trainers EXCEPT ![h] = [t EXCEPT !.pc = "save"]]
                /\ UNCHANGED << ret, calls >>
        /\ UNCHANGED << cases, followups, models, model_versions, issued, clock >>

\* the fit, models_all["models"][str(horizon_weeks)] = model and
\* save_models(models_all)
ConcSave ==
    \E h \in DOMAIN trainers :
        /\ trainers[h].pc = "save"
        /\ \E model \in { fit_model(h, trainers[h].rows) } :
               /\ models' = Put(trainers[h].models_all, h, model)
               /\ trainers' = [trainers EXCEPT ![h].pc = "insert", ![h].model = model]
        /\ UNCHANGED << cases, followups, model_versions, issued, clock, ret, calls >>

\* INSERT INTO model_versions, and the return
ConcInsert ==
    \E h \in DOMAIN trainers :
        /\ trainers[h].pc = "insert"
        /\ IF version_taken(h, trainers[h].model.version)
           THEN /\ ConcReturn(h, trainers[h], "IntegrityError", "", trainers[h].model.version)
                /\ UNCHANGED model_versions
           ELSE /\ ConcReturn(h, trainers[h], "trained", "", trainers[h].model.version)
                /\ model_versions' = Append(model_versions, trainers[h].model)
        /\ UNCHANGED << cases, followups, models, issued, clock >>

NextConc ==
    \/ ConcFetch
    \/ ConcLoad
    \/ ConcSave
    \/ ConcInsert

SpecConc == InitConc /\ [][NextConc]_vars

\* C23 (no lost model update): when a training for horizon 12 and a training
\* for horizon 24 have run at the same time and both have returned
\* "trained", the model store holds the model each of them trained.
C23_NoLostModelUpdate ==
    (/\ DOMAIN trainers = HORIZONS
     /\ \A h \in HORIZONS : trainers[h].pc = "done" /\ trainers[h].result.status = "trained") =>
        \A h \in HORIZONS : h \in DOMAIN models /\ models[h] = trainers[h].model

\* C24 (bad horizon): add_followup with a horizon_weeks outside HORIZONS
\* raises before anything is written: the follow-ups, the model store and the
\* model history are as they were.
C24_BadHorizon ==
    [][ (IsCall(ret', "add_followup") /\ ret'.args.horizon_weeks \notin HORIZONS) =>
        /\ ret'.status = "ValueError"
        /\ cases' = cases
        /\ followups' = followups
        /\ models' = models
        /\ model_versions' = model_versions ]_vars

\* a 6-week follow-up was refused for a stored case that has a follow-up
C24_Witness ==
    /\ IsCall(ret, "add_followup")
    /\ ret.args.horizon_weeks \notin HORIZONS
    /\ ret.status = "ValueError"
    /\ \E f \in followups : f.case_id = ret.args.case_id /\ f.case_id \in DOMAIN cases

\* C25 (no-new-data skip): train_calibration(h, force=False), when the current
\* model for h has n_train equal to the number of join rows for h and that
\* number is at least AUTO_CAL_MIN_N, returns "skipped" and leaves the model
\* store and the model history as they were.
C25_NoNewDataSkip ==
    [][ (IsCall(ret', "train_calibration") /\ ~ret'.args.force) =>
        LET h == ret'.args.horizon_weeks
            n == Cardinality(fetch_training_rows(h, followups))
        IN  (n >= AUTO_CAL_MIN_N /\ h \in DOMAIN models /\ models[h].n_train = n) =>
                /\ ret'.status = "ok"
                /\ ret'.out.status = "skipped"
                /\ models' = models
                /\ model_versions' = model_versions ]_vars

\* an unforced training was skipped for a horizon whose model was fitted on
\* the eleven rows on file
C25_Witness ==
    /\ IsCall(ret, "train_calibration")
    /\ ~ret.args.force
    /\ ret.out.status = "skipped"
    /\ ret.out.reason = "no new data since last training"
    /\ ret.out.n_train = AUTO_CAL_MIN_N
    /\ 12 \in DOMAIN models
    /\ models[12].n_train = AUTO_CAL_MIN_N

\* C26 (version ordering): whenever a training installs a model for horizon
\* h, the model's version orders strictly after every version recorded for h
\* in the model history before.
C26_VersionOrdering ==
    [][ \A h \in DOMAIN models' :
            (h \notin DOMAIN models \/ models'[h] # models[h]) =>
                \A i \in HistoryOf(h) : model_versions[i].version < models'[h].version ]_vars

\* C27 (forced training): train_calibration(h, force=True) with n >= 1 join
\* rows for h returns "trained" with n_train = n and installs a model for h
\* with n_train = n; with no join row it returns "skipped" and installs
\* nothing.
C27_ForcedTraining ==
    [][ (IsCall(ret', "train_calibration") /\ ret'.args.force) =>
        LET h == ret'.args.horizon_weeks
            n == Cardinality(fetch_training_rows(h, followups))
        IN  /\ (n >= 1) =>
                   /\ ret'.status = "ok"
                   /\ ret'.out.status = "trained"
                   /\ ret'.out.n_train = n
                   /\ h \in DOMAIN models'
                   /\ models'[h].n_train = n
            /\ (n = 0) =>
                   /\ ret'.status = "ok"
                   /\ ret'.out.status = "skipped"
                   /\ models' = models
                   /\ model_versions' = model_versions ]_vars

\* C28 (alerts agree with the forecast): in a forecast of rule_predict or
\* calibrated_predict the iron-excess alert is present exactly when the
\* returned TSAT is 40, and the high-ferritin alert exactly when the returned
\* Ferritin is at least 200.
C28_AlertsAgree ==
    (ret.op \in {"rule_predict", "calibrated_predict"} /\ ret.status = "ok") =>
        /\ (A_TSAT \in ret.out.forecast.alerts) <=> (ret.out.forecast.TSAT = Z(40))
        /\ (A_FERR \in ret.out.forecast.alerts) <=> RLe(Z(200), ret.out.forecast.Ferritin)

\* C29 (blank identifiers resolve to nothing): resolve_case_id returns None
\* for every identifier that is empty or only whitespace, whatever cases are
\* stored (cases registered with the default empty external_id included), and
\* a result that is not None is a stored case_id.
C29_BlankIdentifier ==
    IsCall(ret, "resolve_case_id") =>
        /\ (strip(ret.args.identifier) = << >>) => ~ret.out.found
        /\ ret.out.found => ret.out.case_id \in DOMAIN cases

\* C30 (stored follow-ups have a TSAT): every row of the followups table has
\* a defined TSAT, and the row an add_followup call stores holds the TSAT the
\* call was given or, when none was given, 100 * fe / tibc.
C30_FollowupTsat ==
    /\ \A f \in followups : f.tsat # None
    /\ (IsCall(ret, "add_followup") /\ ret.status = "ok") =>
           \E f \in followups :
               /\ f.case_id = ret.args.case_id
               /\ f.horizon_weeks = ret.args.horizon_weeks
               /\ f.tsat = IF ret.args.m.tsat # None THEN ret.args.m.tsat
                           ELSE RDiv(RMul(Z(100), ret.args.m.fe), ret.args.m.tibc)

====
